---- MODULE Spec2Model ----
(***************************************************************************)
(* Pharmaceutical product matching: the text normalizer, the name          *)
(* translator and the two similarity/confidence scorers of the training    *)
(* notebook (src/train_models.ipynb) and of the batch inference notebook   *)
(* (src/unnamed/part_000).                                                 *)
(*                                                                         *)
(* A text is a sequence of Unicode code points (naturals), so that the     *)
(* character ranges of the regular expressions are modelled as ranges.     *)
(* A similarity score is a fixed-point number in units of 1/ScoreScale.    *)
(***************************************************************************)
EXTENDS Integers, Sequences, FiniteSets, TLC

VARIABLES norm, tr, sc, sk, pf, aug, trn

vars == <<norm, tr, sc, sk, pf, aug, trn>>

(***************************************************************************)
(* Bounds of the model                                                     *)
(***************************************************************************)
MaxLen == 3

MaxNoiseLen == 8

MaxPieces == 3

MaxMaster == 2

\* scores within Near units of a threshold are all tried
Near == 6

\* the other scores tried are the multiples of ScoreStep
ScoreStep == 2500

(***************************************************************************)
(* Code points                                                             *)
(***************************************************************************)
SPACE == 32

ALEF == 1575

TATWEEL == 1600

JEEM == 1580

DAL == 1583

YEH == 1610

SEEN == 1587

AIN == 1593

REH == 1585

\* str.isspace / the regular expression class \s
Whitespace == (9..13) \cup (28..32) \cup {133, 160, 5760} \cup (8192..8202)
              \cup {8232, 8233, 8239, 8287, 12288}

\* the regular expression class \d on str patterns (Unicode decimal digits),
\* restricted to the characters normalize_arabic keeps
IsDigit(c) == c \in (48..57) \cup (1632..1641) \cup (1776..1785)

\* the regular expression class \w, restricted to the characters
\* normalize_arabic keeps (letters and decimal digits of the Arabic block)
IsWordChar(c) == c \in (48..57) \cup (1568..1610) \cup (1632..1641)
                       \cup (1646..1647) \cup (1649..1747) \cup {1749}
                       \cup (1765..1766) \cup (1774..1788) \cup {1791}

IsLatin(c) == c \in (65..90) \cup (97..122)

IsDiacritic(c) == c \in 1611..1618

(***************************************************************************)
(* String helpers (Python str methods and re.sub patterns)                 *)
(***************************************************************************)
RECURSIVE LStrip(_)
LStrip(s) == IF s # <<>> /\ Head(s) \in Whitespace THEN LStrip(Tail(s)) ELSE s

RECURSIVE RStrip(_)
RStrip(s) == IF s # <<>> /\ s[Len(s)] \in Whitespace
             THEN RStrip(SubSeq(s, 1, Len(s) - 1)) ELSE s

\* str.strip()
Strip(s) == RStrip(LStrip(s))

\* re.sub(r"\s+", " ", text): every maximal whitespace run becomes one space
RECURSIVE CollapseFrom(_, _)
CollapseFrom(s, i) ==
    IF i > Len(s) THEN <<>>
    ELSE IF s[i] \in Whitespace
         THEN IF i > 1 /\ s[i - 1] \in Whitespace
              THEN CollapseFrom(s, i + 1)
              ELSE <<SPACE>> \o CollapseFrom(s, i + 1)
         ELSE <<s[i]>> \o CollapseFrom(s, i + 1)

CollapseSpaces(s) == CollapseFrom(s, 1)

\* re.sub(r"(\d+)", r" \1 ", text): a space before and after every maximal
\* digit run
RECURSIVE PadFrom(_, _)
PadFrom(s, i) ==
    IF i > Len(s) THEN <<>>
    ELSE IF IsDigit(s[i])
         THEN (IF i = 1 \/ ~IsDigit(s[i - 1]) THEN <<SPACE>> ELSE <<>>)
              \o <<s[i]>>
              \o (IF i = Len(s) \/ ~IsDigit(s[i + 1]) THEN <<SPACE>> ELSE <<>>)
              \o PadFrom(s, i + 1)
         ELSE <<s[i]>> \o PadFrom(s, i + 1)

PadDigitRuns(s) == PadFrom(s, 1)

\* length of the run of YEH that starts at position i
RECURSIVE YehRun(_, _)
YehRun(s, i) == IF i <= Len(s) /\ s[i] = YEH THEN 1 + YehRun(s, i + 1) ELSE 0

\* the end of a match of r"جدي+د" that starts at i, or 0 when there is none
NewMatchEnd(s, i) ==
    IF i + 3 <= Len(s) /\ s[i] = JEEM /\ s[i + 1] = DAL /\ YehRun(s, i + 2) >= 1
    THEN LET e == i + 2 + YehRun(s, i + 2)
         IN  IF e <= Len(s) /\ s[e] = DAL THEN e ELSE 0
    ELSE 0

\* re.sub(r"جدي+د", "", text): one left-to-right scan, non-overlapping
RECURSIVE RemoveNewFrom(_, _)
RemoveNewFrom(s, i) ==
    IF i > Len(s) THEN <<>>
    ELSE IF NewMatchEnd(s, i) # 0
         THEN RemoveNewFrom(s, NewMatchEnd(s, i) + 1)
         ELSE <<s[i]>> \o RemoveNewFrom(s, i + 1)

\* a match of r"سعر", without the word boundaries, starts at i
PriceMatchAt_anywhere(s, i) ==
    /\ i + 2 <= Len(s)
    /\ s[i] = SEEN /\ s[i + 1] = AIN /\ s[i + 2] = REH

\* a match of r"\bسعر\b" starts at i
PriceMatchAt(s, i) ==
    /\ i + 2 <= Len(s)
    /\ s[i] = SEEN /\ s[i + 1] = AIN /\ s[i + 2] = REH
    /\ (i = 1 \/ ~IsWordChar(s[i - 1]))
    /\ (i + 2 = Len(s) \/ ~IsWordChar(s[i + 3]))

\* re.sub(r"\bسعر\b", "", text)
RECURSIVE RemovePriceFrom(_, _)
RemovePriceFrom(s, i) ==
    IF i > Len(s) THEN <<>>
    ELSE IF PriceMatchAt(s, i)
         THEN RemovePriceFrom(s, i + 3)
         ELSE <<s[i]>> \o RemovePriceFrom(s, i + 1)

(***************************************************************************)
(* Text Normalizer                                                         *)
(***************************************************************************)
\* a diacritic range that stops one short of U+0652
remove_diacritics_short(text) ==
    SelectSeq(text, LAMBDA c : c \notin 1611..1617)

remove_diacritics(text) == SelectSeq(text, LAMBDA c : ~IsDiacritic(c))

remove_unwanted_words(text) ==
    Strip(CollapseSpaces(RemovePriceFrom(RemoveNewFrom(text, 1), 1)))

\* the chained str.replace calls that unify letter variants
UnifyChar(c) ==
    CASE c \in {1571, 1573, 1570, 1649} -> ALEF    \* أ إ آ ٱ  -> ا
      [] c = 1609 -> YEH                           \* ى -> ي
      [] c = 1577 -> 1607                          \* ة -> ه
      [] c = 1572 -> 1608                          \* ؤ -> و
      [] c = 1574 -> YEH                           \* ئ -> ي
      [] OTHER -> c

\* a character filter that lets Latin letters through as well
IsKept_latin(c) == c \in (1536..1791) \cup (48..57) \cup {SPACE, 37, 92, 47}
                         \cup (65..90) \cup (97..122)

\* the characters r"[^؀-ۿ0-9 %\\/]" does not delete
IsKept(c) == c \in (1536..1791) \cup (48..57) \cup {SPACE, 37, 92, 47}

\* a translation table that maps nothing
ToAsciiDigit_none(c) == c

\* str.translate(arabic_to_english_numbers)
ToAsciiDigit(c) == IF c \in 1632..1641 THEN c - 1632 + 48 ELSE c

MapSeq(s, Op(_)) == [i \in 1..Len(s) |-> Op(s[i])]

normalize_arabic(text) ==
    LET t1 == Strip(text)
        t2 == remove_diacritics(t1)
        t3 == MapSeq(t2, UnifyChar)
        t4 == SelectSeq(t3, IsKept)
        t5 == MapSeq(t4, ToAsciiDigit)
        t6 == Strip(PadDigitRuns(t5))
        t7 == Strip(CollapseSpaces(t6))
        t8 == SelectSeq(t7, LAMBDA c : c # TATWEEL)
    IN  remove_unwanted_words(t8)

(***************************************************************************)
(* Inputs of the normalizer                                                *)
(***************************************************************************)
\* one or two characters of every class the normalizer distinguishes
NormAlphabet == {SPACE, 97, 90, 1614, 1618, 1571, 1577, 1635, 1632, 51,
                 TATWEEL, JEEM, SEEN, 37, 47, 92, 1779}

NoiseAlphabet == {JEEM, DAL, YEH}

SeqsUpTo(S, n) == UNION {[1..k -> S] : k \in 0..n}

\* the pieces names with noise words are put together from: the word
\* "سعر", the word "جديد", a letter, a space, a tatweel, a digit
NoisePieces == {<<SEEN, AIN, REH>>, <<JEEM, DAL, YEH, DAL>>, <<1576>>, <<SPACE>>,
                <<TATWEEL>>, <<53>>}

\* the texts made of a list of pieces
RECURSIVE Concat(_)
Concat(pieces) == IF pieces = <<>> THEN <<>> ELSE Head(pieces) \o Concat(Tail(pieces))

PieceInputs == {Concat(ps) : ps \in SeqsUpTo(NoisePieces, MaxPieces)}

NormInputs == SeqsUpTo(NormAlphabet, MaxLen) \cup SeqsUpTo(NoiseAlphabet, MaxNoiseLen)
              \cup PieceInputs

Idle == [pc |-> "idle"]

NormInit ==
    /\ norm \in {[pc |-> "input", text |-> t, out |-> <<>>, again |-> <<>>] :
                 t \in NormInputs}
    /\ tr = Idle
    /\ sc = Idle
    /\ sk = Idle /\ pf = Idle /\ aug = Idle /\ trn = Idle

\* normalize_arabic applied to a raw name
Normalize ==
    /\ norm.pc = "input"
    /\ norm' = [norm EXCEPT !.pc = "normalized", !.out = normalize_arabic(norm.text)]
    /\ UNCHANGED <<tr, sc, sk, pf, aug, trn>>

\* normalize_arabic applied to an already normalized name
Renormalize ==
    /\ norm.pc = "normalized"
    /\ norm' = [norm EXCEPT !.pc = "renormalized", !.again = normalize_arabic(norm.out)]
    /\ UNCHANGED <<tr, sc, sk, pf, aug, trn>>

NormNext == Normalize \/ Renormalize

SpecNorm == NormInit /\ [][NormNext]_vars

(***************************************************************************)
(* C1: normalize_arabic is idempotent: normalizing a normalized name       *)
(* gives the same name.                                                    *)
(***************************************************************************)
C1_Idempotent == norm.pc = "renormalized" => norm.again = norm.out

HasChar(s, P(_)) == \E i \in 1..Len(s) : P(s[i])

(***************************************************************************)
(* C2: the output of normalize_arabic contains no Arabic diacritic mark    *)
(* (U+064B..U+0652) and no Latin letter.                                   *)
(***************************************************************************)
C2_NoDiacriticNoLatin ==
    norm.pc # "input" =>
        /\ ~HasChar(norm.out, IsDiacritic)
        /\ ~HasChar(norm.out, IsLatin)

\* an input with the last diacritic of the range, a Latin letter and a
\* letter that survives has been normalized
C2_Witness ==
    /\ norm.pc = "normalized"
    /\ HasChar(norm.text, LAMBDA c : c = 1618)
    /\ HasChar(norm.text, IsLatin)
    /\ norm.out # <<>>

Contains(s, sub) ==
    \E i \in 0..(Len(s) - Len(sub)) : \A j \in 1..Len(sub) : s[i + j] = sub[j]

(***************************************************************************)
(* C20 as stated: the result for the input "٣٠" contains the substring     *)
(* " 30 ".                                                                 *)
(***************************************************************************)
C20_PaddedThirty_Original ==
    (norm.pc # "input" /\ norm.text = <<1635, 1632>>)
    => Contains(norm.out, <<SPACE, 51, 48, SPACE>>)

(***************************************************************************)
(* C20, amended: normalize_arabic converts Arabic-Indic digits to ASCII    *)
(* digits and separates every digit run from adjacent text by a space,     *)
(* but the padding at the ends of the text is stripped: the result has no  *)
(* Arabic-Indic digit (U+0660..U+0669), no space at either end, a digit    *)
(* (class \d) only next to a digit, a space or an end of the text, and the *)
(* result for "٣٠" is "30".                                                *)
(***************************************************************************)
C20_DigitsConvertedAndSeparated ==
    norm.pc # "input" =>
        /\ ~HasChar(norm.out, LAMBDA c : c \in 1632..1641)
        /\ (norm.out # <<>> => norm.out[1] # SPACE /\ norm.out[Len(norm.out)] # SPACE)
        /\ \A i \in 1..Len(norm.out) :
              norm.out[i] \in (48..57) \cup (1776..1785) =>
                 /\ (i = 1 \/ norm.out[i - 1] \in (48..57) \cup (1776..1785) \cup {SPACE})
                 /\ (i = Len(norm.out)
                       \/ norm.out[i + 1] \in (48..57) \cup (1776..1785) \cup {SPACE})
        /\ (norm.text = <<1635, 1632>> => norm.out = <<51, 48>>)

\* "ج٣٠" was normalized to "ج 30"
C20_Witness ==
    /\ norm.pc = "normalized"
    /\ norm.text = <<JEEM, 1635, 1632>>
    /\ norm.out = <<JEEM, SPACE, 51, 48>>

(***************************************************************************)
(* Master catalog and translation index                                    *)
(***************************************************************************)
\* rows of a master file: English name, canonical Arabic name, SKU
MasterRows == {[product_name |-> <<65, 98>>, product_name_ar |-> <<1576>>, sku |-> 1],
               [product_name |-> <<97, 99>>, product_name_ar |-> <<1578>>, sku |-> 2],
               [product_name |-> <<65, 66>>, product_name_ar |-> <<1579>>, sku |-> 3]}

Masters == SeqsUpTo(MasterRows, MaxMaster)

\* str.lower(), on the characters of the model's alphabets
LowerChar(c) == IF c \in 65..90 THEN c + 32 ELSE c

Lower(s) == MapSeq(s, LowerChar)

\* dict(zip(product_name.str.lower(), product_name_ar)): the last row of a
\* key gives its value
translation_dict(master) ==
    LET keys == {Lower(master[i].product_name) : i \in 1..Len(master)}
        last(k) == CHOOSE i \in 1..Len(master) :
                      /\ Lower(master[i].product_name) = k
                      /\ \A j \in (i + 1)..Len(master) : Lower(master[j].product_name) # k
    IN  [k \in keys |-> master[last(k)].product_name_ar]

\* list(translation_dict.keys()): the keys in order of first insertion
RECURSIVE KeysFrom(_, _)
KeysFrom(master, i) ==
    IF i > Len(master) THEN <<>>
    ELSE LET k == Lower(master[i].product_name)
         IN  IF \E j \in 1..(i - 1) : Lower(master[j].product_name) = k
             THEN KeysFrom(master, i + 1)
             ELSE <<k>> \o KeysFrom(master, i + 1)

master_names_en(master) == KeysFrom(master, 1)

(***************************************************************************)
(* Fuzzy matching (rapidfuzz)                                              *)
(***************************************************************************)
Max2(a, b) == IF a >= b THEN a ELSE b

\* one row of the longest-common-subsequence table: entry j + 1 of the
\* result is the value for the prefix b[1..j], cur holds the entries so far
\* (the test on Len(next) makes the entry be computed before the next one)
RECURSIVE LCSFill(_, _, _, _, _)
LCSFill(c, b, prev, j, cur) ==
    IF j > Len(b) THEN cur
    ELSE LET next == Append(cur, IF c = b[j] THEN prev[j] + 1
                                 ELSE Max2(prev[j + 1], cur[j]))
         IN  IF Len(next) = j + 1 THEN LCSFill(c, b, prev, j + 1, next) ELSE <<>>

\* the row of the table for the prefix a[1..i]
RECURSIVE LCSRow(_, _, _)
LCSRow(a, i, b) ==
    IF i = 0 THEN [j \in 1..(Len(b) + 1) |-> 0]
    ELSE LET prev == LCSRow(a, i - 1, b)
         IN  IF Len(prev) = Len(b) + 1 THEN LCSFill(a[i], b, prev, 1, <<0>>) ELSE <<>>

\* length of the longest common subsequence of the prefixes a[1..i], b[1..j]
LCS(a, i, b, j) == LCSRow(a, i, SubSeq(b, 1, j))[j + 1]

\* fuzz.ratio: the normalized Indel similarity 100 * 2*LCS / (len1 + len2),
\* kept as an exact fraction
ratio(s1, s2) ==
    IF Len(s1) + Len(s2) = 0 THEN [num |-> 100, den |-> 1]
    ELSE [num |-> 200 * LCS(s1, Len(s1), s2, Len(s2)), den |-> Len(s1) + Len(s2)]

ScoreLess(x, y) == x.num * y.den < y.num * x.den

\* process.extractOne(query, choices, scorer=fuzz.ratio): the first choice
\* of the highest score, or None for an empty list of choices; query and
\* choices are compared as given (no processor, no score cutoff)
extractOne(query, choices) ==
    IF choices = <<>> THEN [found |-> FALSE, match |-> <<>>, score |-> [num |-> 0, den |-> 1]]
    ELSE LET best == CHOOSE i \in 1..Len(choices) :
                        /\ \A j \in 1..Len(choices) :
                              ~ScoreLess(ratio(query, choices[i]), ratio(query, choices[j]))
                        /\ \A j \in 1..(i - 1) :
                              ScoreLess(ratio(query, choices[j]), ratio(query, choices[i]))
         IN  [found |-> TRUE, match |-> choices[best],
              score |-> ratio(query, choices[best])]

(***************************************************************************)
(* Name Translator                                                         *)
(***************************************************************************)
\* a character class that also takes the period for a Latin letter
contains_english_or_period(text) == HasChar(text, LAMBDA c : IsLatin(c) \/ c = 46)

\* bool(re.search("[A-Za-z]", text))
contains_english(text) == HasChar(text, IsLatin)

\* a strict comparison in place of score >= 50
MatchIsStrong_strict(score) == score.num > 50 * score.den

\* score >= 50
MatchIsStrong(score) == score.num >= 50 * score.den

\* text.replace('.', ' ')
ReplacePeriods(text) == MapSeq(text, LAMBDA c : IF c = 46 THEN SPACE ELSE c)

\* what GoogleTranslator(...).translate can do: raise, return None, or
\* return a text (empty, Latin-contaminated, Arabic)
ServiceOutcomes == {[kind |-> "raise", text |-> <<>>], [kind |-> "None", text |-> <<>>]}
                   \cup {[kind |-> "text", text |-> t] :
                         t \in {<<>>, <<1576, 97>>, <<1583>>, <<1576>>}}

NoOutcome == [kind |-> "none", text |-> <<>>]

TrAlphabet == {97, 66, 99, 46, SPACE, 1576}

TrInit ==
    /\ tr \in {[pc |-> "call", master |-> m, text |-> t, cur |-> t,
                text_lower |-> <<>>, match |-> <<>>, score |-> [num |-> 0, den |-> 1],
                outcome |-> NoOutcome, ret |-> <<>>, path |-> "none",
                fuzzyCalls |-> 0, serviceCalls |-> 0] :
               m \in Masters, t \in SeqsUpTo(TrAlphabet, MaxLen)}
    /\ norm = Idle
    /\ sc = Idle
    /\ sk = Idle /\ pf = Idle /\ aug = Idle /\ trn = Idle

\* translate_to_arabic up to its first return or to the call of the
\* translation service
TranslateBegin ==
    /\ tr.pc = "call"
    /\ IF ~contains_english(tr.text)
       THEN tr' = [tr EXCEPT !.pc = "returned", !.ret = tr.text, !.path = "passthrough"]
       ELSE LET text_lower == Strip(Lower(tr.text))
                text == ReplacePeriods(tr.text)
                found == extractOne(text_lower, master_names_en(tr.master))
            IN  IF ~found.found
                THEN \* unpacking None raises TypeError
                     tr' = [tr EXCEPT !.pc = "raised", !.text_lower = text_lower,
                                      !.cur = text, !.fuzzyCalls = tr.fuzzyCalls + 1]
                ELSE IF MatchIsStrong(found.score)
                THEN tr' = [tr EXCEPT !.pc = "returned", !.text_lower = text_lower,
                                      !.cur = text, !.fuzzyCalls = tr.fuzzyCalls + 1,
                                      !.match = found.match, !.score = found.score,
                                      !.ret = translation_dict(tr.master)[found.match],
                                      !.path = "index"]
                ELSE tr' = [tr EXCEPT !.pc = "service", !.text_lower = text_lower,
                                      !.cur = text, !.fuzzyCalls = tr.fuzzyCalls + 1,
                                      !.match = found.match, !.score = found.score]
    /\ UNCHANGED <<norm, sc, sk, pf, aug, trn>>

\* a loop that calls the translation service again after an exception
AfterAttempt_retry(r) == IF r.kind = "raise" THEN "service" ELSE "returned"

\* where translate_to_arabic stands after the try block: each of its three
\* ways out (return translated_text, return text in the else branch, the
\* handler of the exception followed by the final return text) returns
AfterAttempt(r) == "returned"

\* the call of the translation service and the rest of translate_to_arabic
TranslateService ==
    /\ tr.pc = "service"
    /\ \E r \in ServiceOutcomes :
          IF r.kind = "raise"
          THEN \* except Exception: print, then the final return text
               tr' = [tr EXCEPT !.pc = AfterAttempt(r), !.outcome = r, !.ret = tr.cur,
                                !.path = "original",
                                !.serviceCalls = tr.serviceCalls + 1]
          ELSE IF r.kind = "text" /\ r.text # <<>> /\ ~contains_english(r.text)
          THEN tr' = [tr EXCEPT !.pc = AfterAttempt(r), !.outcome = r, !.ret = r.text,
                                !.path = "service",
                                !.serviceCalls = tr.serviceCalls + 1]
          ELSE tr' = [tr EXCEPT !.pc = AfterAttempt(r), !.outcome = r, !.ret = tr.cur,
                                !.path = "original",
                                !.serviceCalls = tr.serviceCalls + 1]
    /\ UNCHANGED <<norm, sc, sk, pf, aug, trn>>

TrNext == TranslateBegin \/ TranslateService

SpecTranslate == TrInit /\ [][TrNext]_vars

Latin(text) == HasChar(text, IsLatin)

(***************************************************************************)
(* C3: translate_to_arabic applied to a text without Latin letters         *)
(* returns exactly that text, for every index, and consults neither the    *)
(* index nor the translation service.                                      *)
(***************************************************************************)
C3_NoLatinUnchanged ==
    (tr.pc # "call" /\ ~Latin(tr.text)) =>
        /\ tr.pc = "returned"
        /\ tr.ret = tr.text
        /\ tr.fuzzyCalls = 0
        /\ tr.serviceCalls = 0

\* a text of periods, spaces and Arabic letters came back, with a
\* non-empty index at hand
C3_Witness ==
    /\ tr.pc = "returned"
    /\ ~Latin(tr.text)
    /\ HasChar(tr.text, LAMBDA c : c = 46)
    /\ HasChar(tr.text, LAMBDA c : c = 1576)
    /\ tr.master # <<>>

\* the query the fuzzy search is made with
Query(text) == Strip(Lower(text))

\* some key of the index scores at least 50 against the text
HasStrongKey == \E k \in DOMAIN translation_dict(tr.master) :
                   ratio(Query(tr.text), k).num >= 50 * ratio(Query(tr.text), k).den

\* the keys no other key scores higher than
BestKeys == {k \in DOMAIN translation_dict(tr.master) :
               \A k2 \in DOMAIN translation_dict(tr.master) :
                  ~ScoreLess(ratio(Query(tr.text), k), ratio(Query(tr.text), k2))}

ServiceFailed == \/ tr.outcome.kind \in {"raise", "None"}
                 \/ (tr.outcome.kind = "text"
                       /\ (tr.outcome.text = <<>> \/ Latin(tr.outcome.text)))

(***************************************************************************)
(* C5: when the fuzzy match scores below 50 and the translation service    *)
(* fails, translate_to_arabic returns the original input text unchanged,   *)
(* character for character, and does not raise.                            *)
(***************************************************************************)
C5_FailureReturnsOriginal ==
    (tr.pc \notin {"call", "service"} /\ Latin(tr.text) /\ tr.master # <<>>
       /\ ~HasStrongKey /\ ServiceFailed) =>
        /\ tr.pc = "returned"
        /\ tr.ret = tr.text

(***************************************************************************)
(* Similarity & Confidence Scorer                                          *)
(***************************************************************************)
\* a similarity score is a natural number of units of 1/ScoreScale
ScoreScale == 100000

\* round(x, 4) keeps multiples of RoundUnit
RoundUnit == 10

\* the literals of the batch scorer: 0.2, 0.8, 0.6
BatchUnknownCutoff == 20000

BatchHigh == 80000

BatchMedium == 60000

\* the literal 0.4 of compute_similarity
SingleUnknownCutoff == 40000

\* the default arguments of compute_similarity
DefaultArgs == [high_threshhold |-> 80000, medium_threshhold |-> 60000, Unknown |-> 20000]

\* the string "Not Found"
NotFound == <<78, 111, 116, 32, 70, 111, 117, 110, 100>>

\* batch scorer: similarity_score < 0.2, with the boundary on the wrong side
batch_is_unknown_le(similarity_score) == similarity_score <= BatchUnknownCutoff

\* batch scorer: similarity_score < 0.2
batch_is_unknown(similarity_score) == similarity_score < BatchUnknownCutoff

\* batch scorer: tiers that include their boundary
batch_confidence_ge(similarity_score) ==
    IF similarity_score >= BatchHigh THEN "High"
    ELSE IF similarity_score >= BatchMedium THEN "Medium" ELSE "Low"

\* batch scorer: tiers with "Unknown" in the place of "Low"
batch_confidence_low_unknown(similarity_score) ==
    IF similarity_score > BatchHigh THEN "High"
    ELSE IF similarity_score > BatchMedium THEN "Medium" ELSE "Unknown"

\* batch scorer: "High" if s > 0.8 else "Medium" if s > 0.6 else "Low"
batch_confidence(similarity_score) ==
    IF similarity_score > BatchHigh THEN "High"
    ELSE IF similarity_score > BatchMedium THEN "Medium" ELSE "Low"

\* compute_similarity: similarity_score < 0.4, with the boundary on the
\* wrong side
single_is_unknown_le(similarity_score, Unknown) == similarity_score <= SingleUnknownCutoff

\* compute_similarity: similarity_score < 0.4; the argument Unknown is not read
single_is_unknown(similarity_score, Unknown) == similarity_score < SingleUnknownCutoff

\* compute_similarity: the tiers tested in the wrong order
single_confidence_swapped(similarity_score, high_threshhold, medium_threshhold) ==
    IF similarity_score > medium_threshhold THEN "Medium"
    ELSE IF similarity_score > high_threshhold THEN "High" ELSE "Low"

\* compute_similarity: "High" if s > high_threshhold else "Medium" if
\* s > medium_threshhold else "Low"
single_confidence(similarity_score, high_threshhold, medium_threshhold) ==
    IF similarity_score > high_threshhold THEN "High"
    ELSE IF similarity_score > medium_threshhold THEN "Medium" ELSE "Low"

\* round(float(x), 4): the nearest multiples of RoundUnit; a decimal tie is
\* decided by the binary value of the float, so both neighbours are possible
Round4(x) ==
    LET lo == (x \div RoundUnit) * RoundUnit
        r  == x % RoundUnit
    IN  IF 2 * r < RoundUnit THEN {lo}
        ELSE IF 2 * r > RoundUnit THEN {lo + RoundUnit}
        ELSE {lo, lo + RoundUnit}

Abs(x) == IF x < 0 THEN -x ELSE x

Tenths(n) == (n * ScoreScale) \div 10

\* the scores tried: a grid, and every score near a threshold
Scores == {s \in 0..ScoreScale :
             \/ s % ScoreStep = 0
             \/ \E n \in {2, 4, 6, 8, 10} : Abs(s - Tenths(n)) <= Near}

\* the values tried for each threshold argument
ThresholdValues == {Tenths(n) : n \in {2, 4, 6, 8, 10}}

ArgSets == [high_threshhold : ThresholdValues, medium_threshhold : ThresholdValues,
            Unknown : ThresholdValues]

\* the labels the classifier predicts
Labels == {<<1576>>, <<1578>>}

ScInit ==
    /\ sc \in {[pc |-> "call", site |-> st, predicted_name |-> l, raw |-> s, args |-> a,
                matched_name |-> <<>>, similarity_score |-> 0, confidence |-> "none"] :
               st \in {"batch", "single"}, l \in Labels, s \in Scores,
               a \in ArgSets}
    /\ (sc.site = "batch" => sc.args = DefaultArgs)
    /\ norm = Idle
    /\ tr = Idle
    /\ sk = Idle /\ pf = Idle /\ aug = Idle /\ trn = Idle

\* process_file.compute_similarity, from the cosine similarity on
BatchComputeSimilarity ==
    /\ sc.pc = "call" /\ sc.site = "batch"
    /\ IF batch_is_unknown(sc.raw)
       THEN sc' = [sc EXCEPT !.pc = "returned", !.matched_name = NotFound,
                             !.confidence = "Unknown", !.similarity_score = sc.raw]
       ELSE sc' = [sc EXCEPT !.pc = "returned", !.matched_name = sc.predicted_name,
                             !.confidence = batch_confidence(sc.raw),
                             !.similarity_score = sc.raw]
    /\ UNCHANGED <<norm, tr, sk, pf, aug, trn>>

\* compute_similarity of the training notebook, from the cosine similarity on
SingleComputeSimilarity ==
    /\ sc.pc = "call" /\ sc.site = "single"
    /\ IF single_is_unknown(sc.raw, sc.args.Unknown)
       THEN \E r \in Round4(0) :
               sc' = [sc EXCEPT !.pc = "returned", !.matched_name = NotFound,
                                !.confidence = "Unknown", !.similarity_score = r]
       ELSE \E r \in Round4(sc.raw) :
               sc' = [sc EXCEPT !.pc = "returned", !.matched_name = sc.predicted_name,
                                !.confidence = single_confidence(sc.raw,
                                                   sc.args.high_threshhold,
                                                   sc.args.medium_threshhold),
                                !.similarity_score = r]
    /\ UNCHANGED <<norm, tr, sk, pf, aug, trn>>

ScNext == BatchComputeSimilarity \/ SingleComputeSimilarity

SpecScore == ScInit /\ [][ScNext]_vars

BatchDone == sc.pc = "returned" /\ sc.site = "batch"

SingleDone == sc.pc = "returned" /\ sc.site = "single"

(***************************************************************************)
(* C6: batch scorer: a score below 0.2 gives the label "Not Found" and     *)
(* the confidence "Unknown" with the score emitted unchanged; otherwise    *)
(* the label is the prediction and the confidence is "High" above 0.8,     *)
(* "Medium" in (0.6, 0.8] and "Low" in [0.2, 0.6].                         *)
(***************************************************************************)
C6_BatchPolicy ==
    BatchDone =>
        /\ sc.similarity_score = sc.raw
        /\ IF sc.raw < Tenths(2)
           THEN sc.matched_name = NotFound /\ sc.confidence = "Unknown"
           ELSE /\ sc.matched_name = sc.predicted_name
                /\ (sc.raw > Tenths(8) => sc.confidence = "High")
                /\ (Tenths(6) < sc.raw /\ sc.raw <= Tenths(8) => sc.confidence = "Medium")
                /\ (Tenths(2) <= sc.raw /\ sc.raw <= Tenths(6) => sc.confidence = "Low")

\* a score of exactly 0.2 went through the batch scorer and kept its label
C6_Witness ==
    /\ BatchDone
    /\ sc.raw = Tenths(2)
    /\ sc.matched_name = sc.predicted_name
    /\ sc.confidence = "Low"

C8_UnknownArgIsCutoff ==
    SingleDone =>
        ((sc.matched_name = NotFound /\ sc.confidence = "Unknown")
            <=> sc.raw < sc.args.Unknown)

(***************************************************************************)
(* C9: tier boundaries are strict at both call sites: a score of exactly   *)
(* 0.6 is "Low" and a score of exactly 0.8 is "Medium".                    *)
(***************************************************************************)
C9_StrictBoundaries ==
    (BatchDone \/ (SingleDone /\ sc.args = DefaultArgs)) =>
        /\ (sc.raw = Tenths(6) => sc.confidence = "Low")
        /\ (sc.raw = Tenths(8) => sc.confidence = "Medium")

\* a score of exactly 0.8 went through the batch scorer
C9_Witness ==
    /\ BatchDone
    /\ sc.raw = Tenths(8)
    /\ sc.confidence = "Medium"

(***************************************************************************)
(* C10 as stated: a score of 1.0 yields "High" in the batch scorer and in  *)
(* compute_similarity for every value of the threshold arguments.          *)
(***************************************************************************)
C10_PerfectScoreHigh_Original ==
    (sc.pc = "returned" /\ sc.raw = ScoreScale) => sc.confidence = "High"

(***************************************************************************)
(* C10, amended: a score of 1.0 yields "High" in the batch scorer, and in  *)
(* compute_similarity whenever high_threshhold is below 1.0, for every     *)
(* value of medium_threshhold and Unknown.                                 *)
(***************************************************************************)
C10_PerfectScoreHigh ==
    (sc.pc = "returned" /\ sc.raw = ScoreScale
       /\ (sc.site = "single" => sc.args.high_threshhold < ScoreScale))
    => sc.confidence = "High"

\* a score of 1.0 went through compute_similarity with non-default
\* thresholds, medium_threshhold and Unknown at 1.0
C10_Witness ==
    /\ SingleDone
    /\ sc.raw = ScoreScale
    /\ sc.args.high_threshhold = Tenths(6)
    /\ sc.args.medium_threshhold = ScoreScale
    /\ sc.args.Unknown = ScoreScale
    /\ sc.confidence = "High"

(***************************************************************************)
(* SKU Resolver                                                            *)
(***************************************************************************)
\* str.split(): the maximal runs of non-whitespace characters, cur being the
\* word read so far
RECURSIVE SplitFrom(_, _, _)
SplitFrom(s, i, cur) ==
    IF i > Len(s) THEN (IF cur = <<>> THEN <<>> ELSE <<cur>>)
    ELSE IF s[i] \in Whitespace
         THEN (IF cur = <<>> THEN <<>> ELSE <<cur>>) \o SplitFrom(s, i + 1, <<>>)
         ELSE SplitFrom(s, i + 1, Append(cur, s[i]))

Split(s) == SplitFrom(s, 1, <<>>)

\* the order of str values: by code point, a proper prefix first
RECURSIVE StrLess(_, _)
StrLess(a, b) ==
    IF b = <<>> THEN FALSE
    ELSE IF a = <<>> THEN TRUE
    ELSE IF Head(a) # Head(b) THEN Head(a) < Head(b)
    ELSE StrLess(Tail(a), Tail(b))

\* a word put into a sorted list of words, after its equals
RECURSIVE Insert(_, _)
Insert(w, ws) ==
    IF ws = <<>> THEN <<w>>
    ELSE IF StrLess(w, Head(ws)) THEN <<w>> \o ws
    ELSE <<Head(ws)>> \o Insert(w, Tail(ws))

\* sorted(words)
RECURSIVE Sorted(_)
Sorted(ws) == IF ws = <<>> THEN <<>> ELSE Insert(ws[Len(ws)], Sorted(SubSeq(ws, 1, Len(ws) - 1)))

\* " ".join(words)
RECURSIVE Join(_)
Join(ws) ==
    IF ws = <<>> THEN <<>>
    ELSE IF Len(ws) = 1 THEN ws[1]
    ELSE ws[1] \o <<SPACE>> \o Join(Tail(ws))

\* fuzz.token_sort_ratio: fuzz.ratio of the two texts with their words sorted
token_sort_ratio(s1, s2) == ratio(Join(Sorted(Split(s1))), Join(Sorted(Split(s2))))

\* process.extractOne(query, choices, scorer=fuzz.token_sort_ratio)
extractOne_token_sort(query, choices) ==
    IF choices = <<>> THEN [found |-> FALSE, match |-> <<>>, score |-> [num |-> 0, den |-> 1]]
    ELSE LET best == CHOOSE i \in 1..Len(choices) :
                        /\ \A j \in 1..Len(choices) :
                              ~ScoreLess(token_sort_ratio(query, choices[i]),
                                         token_sort_ratio(query, choices[j]))
                        /\ \A j \in 1..(i - 1) :
                              ScoreLess(token_sort_ratio(query, choices[j]),
                                        token_sort_ratio(query, choices[i]))
         IN  [found |-> TRUE, match |-> choices[best],
              score |-> token_sort_ratio(query, choices[best])]

\* master_df['product_name_ar'].tolist()
product_names(master) == [i \in 1..Len(master) |-> master[i].product_name_ar]

\* dict(zip(master_df['product_name_ar'], master_df['sku'])): the last row of
\* a name gives its SKU
sku_dict(master) ==
    LET names == {master[i].product_name_ar : i \in 1..Len(master)}
        last(n) == CHOOSE i \in 1..Len(master) :
                      /\ master[i].product_name_ar = n
                      /\ \A j \in (i + 1)..Len(master) : master[j].product_name_ar # n
    IN  [n \in names |-> master[last(n)].sku]

\* a test for the sentinel that never succeeds
is_not_found_never(marketplace_name) == marketplace_name = <<>> /\ marketplace_name # <<>>

\* marketplace_name == "Not Found"
is_not_found(marketplace_name) == marketplace_name = NotFound

\* a comparison that takes a score of exactly 70 as well
SkuMatchIsStrong_ge(score) == score.num >= 70 * score.den

\* score > 70
SkuMatchIsStrong(score) == score.num > 70 * score.den

\* rows of a master file with longer names; a SKU is written as a text
SkuRows == {[product_name |-> <<97>>,
             product_name_ar |-> <<1576, 1606, 1575, 1583, 1608, 1604, 32, 53, 48, 48>>,
             sku |-> <<49>>],
            [product_name |-> <<98>>,
             product_name_ar |-> <<53, 48, 48, 32, 1576, 1606, 1575, 1583, 1608, 1604>>,
             sku |-> <<50>>],
            [product_name |-> <<99>>,
             product_name_ar |-> <<1603, 1578, 1575, 1601, 1604, 1575, 1605>>,
             sku |-> <<51>>],
            [product_name |-> <<100>>,
             product_name_ar |-> <<1576, 1606, 1575, 1583, 1608, 1604, 32, 53, 48, 48>>,
             sku |-> <<52>>]}

SkuMasters == SeqsUpTo(SkuRows, MaxMaster)

\* the names given to find_best_sku: the sentinel, names of the master file,
\* and names that score 100, 70, 75, 46 and 82 against one of them
SkuQueries == {NotFound,
               <<1576, 1606, 1575, 1583, 1608, 1604, 32, 53, 48, 48>>,
               <<53, 48, 48, 32, 1576, 1606, 1575, 1583, 1608, 1604>>,
               <<1576, 1606, 1575, 49, 50, 51, 32, 53, 48, 48>>,
               <<1576, 1606, 1575, 1583, 1608, 1604>>,
               <<1576, 1606, 1575>>,
               <<1603, 1578, 1575, 1601, 1604, 1575, 1605, 32, 53, 48>>}

SkInit ==
    /\ sk \in {[pc |-> "call", master |-> m, marketplace_name |-> q, ret |-> <<>>,
                match |-> <<>>, score |-> [num |-> 0, den |-> 1], fuzzyCalls |-> 0] :
               m \in SkuMasters, q \in SkuQueries}
    /\ norm = Idle /\ tr = Idle /\ sc = Idle /\ pf = Idle /\ aug = Idle /\ trn = Idle

\* process_file.find_best_sku
FindBestSku ==
    /\ sk.pc = "call"
    /\ IF is_not_found(sk.marketplace_name)
       THEN sk' = [sk EXCEPT !.pc = "returned", !.ret = NotFound]
       ELSE LET found == extractOne_token_sort(sk.marketplace_name, product_names(sk.master))
            IN  IF ~found.found
                THEN \* unpacking None raises TypeError
                     sk' = [sk EXCEPT !.pc = "raised", !.fuzzyCalls = sk.fuzzyCalls + 1]
                ELSE sk' = [sk EXCEPT !.pc = "returned",
                                      !.fuzzyCalls = sk.fuzzyCalls + 1,
                                      !.match = found.match, !.score = found.score,
                                      !.ret = IF SkuMatchIsStrong(found.score)
                                              THEN sku_dict(sk.master)[found.match]
                                              ELSE NotFound]
    /\ UNCHANGED <<norm, tr, sc, pf, aug, trn>>

SkNext == FindBestSku

SpecSku == SkInit /\ [][SkNext]_vars

(***************************************************************************)
(* C11: find_best_sku applied to the sentinel "Not Found" returns          *)
(* "Not Found" for every master catalog, an empty one included, and never  *)
(* invokes the fuzzy matcher.                                              *)
(***************************************************************************)
C11_SentinelShortCircuit ==
    (sk.pc # "call" /\ sk.marketplace_name = NotFound) =>
        /\ sk.pc = "returned"
        /\ sk.ret = NotFound
        /\ sk.fuzzyCalls = 0

\* the sentinel was resolved against an empty master catalog
C11_Witness ==
    /\ sk.pc = "returned"
    /\ sk.marketplace_name = NotFound
    /\ sk.master = <<>>

\* the names of the master catalog no other name scores higher than
BestNames == {n \in DOMAIN sku_dict(sk.master) :
                \A n2 \in DOMAIN sku_dict(sk.master) :
                   ~ScoreLess(token_sort_ratio(sk.marketplace_name, n),
                              token_sort_ratio(sk.marketplace_name, n2))}

\* some name of the master catalog scores above 70
HasNameAbove70 == \E n \in DOMAIN sku_dict(sk.master) :
                     token_sort_ratio(sk.marketplace_name, n).num
                        > 70 * token_sort_ratio(sk.marketplace_name, n).den

(***************************************************************************)
(* C12: for a predicted name other than "Not Found" and a master catalog   *)
(* with at least one row, find_best_sku returns the SKU of a best-matching *)
(* master name if and only if the best token-sort score is strictly        *)
(* greater than 70; at a score of exactly 70 or less it returns            *)
(* "Not Found".                                                            *)
(***************************************************************************)
C12_SkuAbove70 ==
    (sk.pc # "call" /\ sk.marketplace_name # NotFound /\ sk.master # <<>>) =>
        /\ sk.pc = "returned"
        /\ IF HasNameAbove70
           THEN \E n \in BestNames : sk.ret = sku_dict(sk.master)[n]
           ELSE sk.ret = NotFound

\* a best match of exactly 70 was turned down
C12_Witness ==
    /\ sk.pc = "returned"
    /\ sk.marketplace_name # NotFound
    /\ sk.master # <<>>
    /\ sk.score.num = 70 * sk.score.den
    /\ sk.ret = NotFound

(***************************************************************************)
(* Batch pipeline (model loading cell and process_file)                    *)
(***************************************************************************)
MaxRecords == 2

\* rows of a master file; a SKU is written as a text
PfRows == <<[product_name |-> <<97, 98>>, product_name_ar |-> <<1576>>, sku |-> <<49>>],
            [product_name |-> <<65, 99>>, product_name_ar |-> <<1578>>, sku |-> <<50>>]>>

\* master sheets: without rows, with one row, with two rows
PfMasters == {SubSeq(PfRows, 1, k) : k \in 0..Len(PfRows)}

\* seller item names: an Arabic name, a name of the index, a Latin name the
\* index does not know, a name that normalizes to the empty text
PfNames == {<<1576>>, <<97, 98>>, <<122>>, <<46>>}

\* dataset sheets with at least one row
PfDatasets == SeqsUpTo(PfNames, MaxRecords) \ {<<>>}

DatasetColumns == {"seller_item_name"}

MasterColumns == {"product_name", "product_name_ar", "sku"}

\* the labels model.predict answers with
PfLabels == {<<1576>>, <<1583>>}

\* the cosine similarities of a name that has a feature of the vocabulary
PfScores == {Tenths(1), Tenths(4), Tenths(9)}

NoError == [type |-> "none", column |-> "none", at |-> "none"]

\* a test of the dataset sheet that accepts every sheet
dataset_is_valid_any(columns) == TRUE

\* 'seller_item_name' in df.columns
dataset_is_valid(columns) == "seller_item_name" \in columns

\* 'product_name_ar' in master_df.columns
master_is_valid(columns) == "product_name_ar" \in columns

\* translate_to_arabic as a whole: what it returns or that it raises, for
\* every outcome of the translation service
translate_to_arabic(text, master) ==
    IF ~contains_english(text) THEN {[raised |-> FALSE, text |-> text]}
    ELSE LET text_lower == Strip(Lower(text))
             cur == ReplacePeriods(text)
             found == extractOne(text_lower, master_names_en(master))
         IN  IF ~found.found THEN {[raised |-> TRUE, text |-> <<>>]}
             ELSE IF MatchIsStrong(found.score)
             THEN {[raised |-> FALSE, text |-> translation_dict(master)[found.match]]}
             ELSE {[raised |-> FALSE,
                    text |-> IF r.kind = "text" /\ r.text # <<>> /\ ~contains_english(r.text)
                             THEN r.text ELSE cur] : r \in ServiceOutcomes}

\* find_best_sku as a whole
find_best_sku(marketplace_name, master) ==
    IF is_not_found(marketplace_name) THEN [raised |-> FALSE, sku |-> NotFound]
    ELSE LET found == extractOne_token_sort(marketplace_name, product_names(master))
         IN  IF ~found.found THEN [raised |-> TRUE, sku |-> <<>>]
             ELSE [raised |-> FALSE,
                   sku |-> IF SkuMatchIsStrong(found.score)
                           THEN sku_dict(master)[found.match] ELSE NotFound]

\* a cosine similarity that is positive for every name
SimilaritiesOf_any(name) == PfScores

\* cosine_similarity(seller_vector, predicted_vector)[0, 0]: the empty name
\* has no n-gram, its vector is the zero vector and its similarity is 0
SimilaritiesOf(name) == IF name = <<>> THEN {0} ELSE PfScores

\* a stage that is left after its first record
StageAfter_first(i, n, stage, next) == next

\* Series.apply: the function is applied to the values of the column one
\* after the other; the stage is left when record i is the last of n
StageAfter(i, n, stage, next) == IF i = n THEN next ELSE stage

PfInit ==
    /\ pf \in {[pc |-> "start", pair |-> pair, output_file |-> f,
                dataset_columns |-> dc, master_columns |-> mc,
                dataset |-> d, master |-> m,
                processed |-> <<>>, normalized |-> FALSE, rows |-> <<>>, skus |-> <<>>,
                preprocessCalls |-> 0, vectorizerCalls |-> 0, classifierCalls |-> 0,
                error |-> NoError, written |-> "none", reported |-> "none",
                output |-> <<>>] :
               pair \in {"matched", "mismatched"}, f \in {"output.xlsx", "result.xlsx"},
               dc \in SUBSET DatasetColumns, mc \in SUBSET MasterColumns,
               d \in PfDatasets, m \in PfMasters}
    /\ norm = Idle /\ tr = Idle /\ sc = Idle /\ sk = Idle /\ aug = Idle /\ trn = Idle

\* the loading cell: joblib.load of the classifier and of the vectorizer,
\* then the message of success
LoadModels ==
    /\ pf.pc = "start"
    /\ pf' = [pf EXCEPT !.pc = "loaded"]
    /\ UNCHANGED <<norm, tr, sc, sk, aug, trn>>

\* process_file: read_excel of both sheets and the two column tests
CheckColumns ==
    /\ pf.pc = "loaded"
    /\ IF ~dataset_is_valid(pf.dataset_columns)
       THEN pf' = [pf EXCEPT !.pc = "raised",
                             !.error = [type |-> "ValueError", column |-> "seller_item_name",
                                        at |-> "check"]]
       ELSE IF ~master_is_valid(pf.master_columns)
       THEN pf' = [pf EXCEPT !.pc = "raised",
                             !.error = [type |-> "ValueError", column |-> "product_name_ar",
                                        at |-> "check"]]
       ELSE pf' = [pf EXCEPT !.pc = "preprocess"]
    /\ UNCHANGED <<norm, tr, sc, sk, aug, trn>>

\* preprocess_function up to the first apply: translation_dict and
\* master_names_en are built, the column seller_item_name is taken
BuildIndex ==
    /\ pf.pc = "preprocess"
    /\ IF "product_name" \notin pf.master_columns
       THEN pf' = [pf EXCEPT !.pc = "raised", !.preprocessCalls = 1,
                             !.error = [type |-> "KeyError", column |-> "product_name",
                                        at |-> "preprocess"]]
       ELSE IF "product_name_ar" \notin pf.master_columns
       THEN pf' = [pf EXCEPT !.pc = "raised", !.preprocessCalls = 1,
                             !.error = [type |-> "KeyError", column |-> "product_name_ar",
                                        at |-> "preprocess"]]
       ELSE IF "seller_item_name" \notin pf.dataset_columns
       THEN pf' = [pf EXCEPT !.pc = "raised", !.preprocessCalls = 1,
                             !.error = [type |-> "KeyError", column |-> "seller_item_name",
                                        at |-> "preprocess"]]
       ELSE pf' = [pf EXCEPT !.pc = "translate", !.preprocessCalls = 1]
    /\ UNCHANGED <<norm, tr, sc, sk, aug, trn>>

\* preprocess_function: translate_to_arabic applied to the next name of the
\* column; the column is complete before normalization starts
TranslateRecord ==
    /\ pf.pc = "translate"
    /\ LET i == Len(pf.processed) + 1
       IN  \E r \in translate_to_arabic(pf.dataset[i], pf.master) :
              IF r.raised
              THEN pf' = [pf EXCEPT !.pc = "raised",
                                    !.error = [type |-> "TypeError", column |-> "none",
                                               at |-> "translate"]]
              ELSE pf' = [pf EXCEPT !.processed = Append(pf.processed, r.text),
                                    !.pc = StageAfter(i, Len(pf.dataset), "translate",
                                                       "normalize")]
    /\ UNCHANGED <<norm, tr, sc, sk, aug, trn>>

\* preprocess_function: normalize_arabic applied to the translated column
NormalizeColumn ==
    /\ pf.pc = "normalize"
    /\ pf' = [pf EXCEPT !.pc = "score", !.normalized = TRUE,
                        !.processed = [i \in 1..Len(pf.processed) |->
                                          normalize_arabic(pf.processed[i])]]
    /\ UNCHANGED <<norm, tr, sc, sk, aug, trn>>

\* process_file.compute_similarity applied to the next processed name: the
\* name is vectorized, the classifier predicts, the label is vectorized,
\* the cosine similarity gives name and tier. A classifier that expects
\* another number of features raises in predict. A name without any
\* feature of the vocabulary has similarity 0.
ScoreRecord ==
    /\ pf.pc = "score"
    /\ LET i == Len(pf.rows) + 1
           name == pf.processed[i]
       IN  IF pf.pair = "mismatched"
           THEN pf' = [pf EXCEPT !.pc = "raised",
                                 !.vectorizerCalls = pf.vectorizerCalls + 1,
                                 !.classifierCalls = pf.classifierCalls + 1,
                                 !.error = [type |-> "ValueError", column |-> "none",
                                            at |-> "predict"]]
           ELSE \E predicted_name \in PfLabels :
                \E similarity_score \in SimilaritiesOf(name) :
                   pf' = [pf EXCEPT
                            !.vectorizerCalls = pf.vectorizerCalls + 2,
                            !.classifierCalls = pf.classifierCalls + 1,
                            !.rows = Append(pf.rows,
                                       IF batch_is_unknown(similarity_score)
                                       THEN [marketplace_product_name_ar |-> NotFound,
                                             similarity |-> similarity_score,
                                             confidence |-> "Unknown"]
                                       ELSE [marketplace_product_name_ar |-> predicted_name,
                                             similarity |-> similarity_score,
                                             confidence |-> batch_confidence(similarity_score)]),
                            !.pc = StageAfter(i, Len(pf.dataset), "score", "skudict")]
    /\ UNCHANGED <<norm, tr, sc, sk, aug, trn>>

\* process_file: product_names and sku_dict are built from the master sheet
BuildSkuDict ==
    /\ pf.pc = "skudict"
    /\ IF "sku" \notin pf.master_columns
       THEN pf' = [pf EXCEPT !.pc = "raised",
                             !.error = [type |-> "KeyError", column |-> "sku",
                                        at |-> "sku_dict"]]
       ELSE pf' = [pf EXCEPT !.pc = "sku"]
    /\ UNCHANGED <<norm, tr, sc, sk, aug, trn>>

\* process_file: find_best_sku applied to the next predicted name
ResolveSku ==
    /\ pf.pc = "sku"
    /\ LET i == Len(pf.skus) + 1
           r == find_best_sku(pf.rows[i].marketplace_product_name_ar, pf.master)
       IN  IF r.raised
           THEN pf' = [pf EXCEPT !.pc = "raised",
                                 !.error = [type |-> "TypeError", column |-> "none",
                                            at |-> "find_best_sku"]]
           ELSE pf' = [pf EXCEPT !.skus = Append(pf.skus, r.sku),
                                 !.pc = StageAfter(i, Len(pf.dataset), "sku", "save")]
    /\ UNCHANGED <<norm, tr, sc, sk, aug, trn>>

\* process_file: the temporary column is dropped, the sheet is written to
\* "output.xlsx", the message names output_file
SaveOutput ==
    /\ pf.pc = "save"
    /\ pf' = [pf EXCEPT !.pc = "done",
                        !.written = "output.xlsx",
                        !.reported = pf.output_file,
                        !.output = [i \in 1..Len(pf.dataset) |->
                                       [seller_item_name |-> pf.dataset[i],
                                        marketplace_product_name_ar |->
                                            pf.rows[i].marketplace_product_name_ar,
                                        similarity |-> pf.rows[i].similarity,
                                        confidence |-> pf.rows[i].confidence,
                                        sku |-> pf.skus[i]]]]
    /\ UNCHANGED <<norm, tr, sc, sk, aug, trn>>

PfNext ==
    \/ LoadModels
    \/ CheckColumns
    \/ BuildIndex
    \/ TranslateRecord
    \/ NormalizeColumn
    \/ ScoreRecord
    \/ BuildSkuDict
    \/ ResolveSku
    \/ SaveOutput

SpecBatch == PfInit /\ [][PfNext]_vars

\* the columns the pipeline reads that the sheets do not have
MissingColumns == (DatasetColumns \ pf.dataset_columns) \cup (MasterColumns \ pf.master_columns)

\* no name has been translated, normalized, vectorized or classified
NoRecordProcessed ==
    /\ pf.processed = <<>>
    /\ pf.vectorizerCalls = 0
    /\ pf.classifierCalls = 0

(***************************************************************************)
(* C13: when a column the pipeline reads is absent (seller_item_name of    *)
(* the dataset; product_name, product_name_ar or sku of the master file)   *)
(* no record is ever processed, and the run fails with an error that names *)
(* an absent column.                                                       *)
(***************************************************************************)
C13_AllColumnsValidated ==
    (MissingColumns # {}) =>
        /\ NoRecordProcessed
        /\ pf.pc # "done"
        /\ (pf.pc = "raised" => pf.error.column \in MissingColumns)

(***************************************************************************)
(* C14: when the dataset lacks the column seller_item_name, process_file   *)
(* raises an error naming that column before the preprocessing function,   *)
(* the vectorizer or the classifier is called, and writes no output.       *)
(***************************************************************************)
C14_MissingSellerColumn ==
    ("seller_item_name" \notin pf.dataset_columns) =>
        /\ pf.pc \in {"start", "loaded", "raised"}
        /\ (pf.pc = "raised" =>
               /\ pf.error.type = "ValueError"
               /\ pf.error.column = "seller_item_name"
               /\ pf.error.at = "check")
        /\ pf.preprocessCalls = 0
        /\ pf.vectorizerCalls = 0
        /\ pf.classifierCalls = 0
        /\ pf.written = "none"
        /\ pf.output = <<>>

\* the run failed on a dataset without seller_item_name whose master file
\* lacks columns as well
C14_Witness ==
    /\ pf.pc = "raised"
    /\ "seller_item_name" \notin pf.dataset_columns
    /\ pf.master_columns = {}
    /\ pf.error.column = "seller_item_name"

(***************************************************************************)
(* C15: with every column present (and a matched model pair) no run of     *)
(* process_file fails, and a finished run has written one row per record.  *)
(***************************************************************************)
C15_BatchCompletes ==
    (MissingColumns = {} /\ pf.pair = "matched") =>
        /\ pf.pc # "raised"
        /\ (pf.pc = "done" => Len(pf.output) = Len(pf.dataset))

(***************************************************************************)
(* C16: a vectorizer and a classifier whose feature dimensions differ are  *)
(* rejected at load time: the run never gets past loading with them, and   *)
(* nothing is vectorized or classified.                                    *)
(***************************************************************************)
C16_MismatchFatalAtLoad ==
    (pf.pair = "mismatched") =>
        /\ pf.pc \in {"start", "raised"}
        /\ (pf.pc = "raised" => pf.error.at = "load")
        /\ pf.vectorizerCalls = 0
        /\ pf.classifierCalls = 0

(***************************************************************************)
(* Data augmentation (augment_name)                                        *)
(***************************************************************************)
\* for _ in range(70)
Rounds == 70

\* the letters random.choice takes the new character from
ArabicLetters == {1575, 1576, 1578, 1579, 1580, 1581, 1582, 1583, 1584, 1585,
                  1586, 1587, 1588, 1589, 1590, 1591, 1592, 1593, 1594, 1601,
                  1602, 1603, 1604, 1605, 1606, 1607, 1608, 1610}

\* the suffixes random.choice takes from: "جديد", "سعر", "سعر جديد", "س ج"
Suffixes == {<<JEEM, DAL, YEH, DAL>>,
             <<SEEN, AIN, REH>>,
             <<SEEN, AIN, REH, SPACE, JEEM, DAL, YEH, DAL>>,
             <<SEEN, SPACE, JEEM>>}

\* a sequence without its element i
RemoveAt(s, i) == SubSeq(s, 1, i - 1) \o SubSeq(s, i + 1, Len(s))

\* the orders random.shuffle can leave a list in
RECURSIVE Shuffles(_)
Shuffles(ws) ==
    IF ws = <<>> THEN {<<>>}
    ELSE UNION {{<<ws[i]>> \o p : p \in Shuffles(RemoveAt(ws, i))} : i \in 1..Len(ws)}

\* re.sub("0", "", text, 1): the first "0" is removed
RECURSIVE RemoveFirstZero(_)
RemoveFirstZero(text) ==
    IF text = <<>> THEN <<>>
    ELSE IF Head(text) = 48 THEN Tail(text)
    ELSE <<Head(text)>> \o RemoveFirstZero(Tail(text))

\* the random choices made for one word: whether a character is deleted
\* and which, whether one is replaced, which and by what; a word of 5
\* characters or fewer draws nothing
WordChoices(word) ==
    IF Len(word) > 5
    THEN {[del |-> d.on, didx |-> d.idx, sub |-> r.on, sidx |-> r.idx, new_char |-> r.c] :
          d \in {[on |-> FALSE, idx |-> 0]}
                \cup {[on |-> TRUE, idx |-> i] : i \in 1..Len(word)},
          r \in {[on |-> FALSE, idx |-> 0, c |-> 0]}
                \cup {[on |-> TRUE, idx |-> i, c |-> c] :
                      i \in 1..Len(word), c \in ArabicLetters}}
    ELSE {[del |-> FALSE, didx |-> 0, sub |-> FALSE, sidx |-> 0, new_char |-> 0]}

\* a substitution made in the word the deletion has left
EditWord_chained(word, e) ==
    LET deleted == IF Len(word) > 5 /\ e.del THEN RemoveAt(word, e.didx) ELSE word
        idx == IF e.sidx > Len(deleted) THEN Len(deleted) ELSE e.sidx
    IN  IF Len(deleted) > 5 /\ e.sub THEN [deleted EXCEPT ![idx] = e.new_char]
        ELSE deleted

\* the body of the loop over the words: words[i] after the two edits, both
\* of which read the loop variable word, so that the substitution, assigned
\* last, overwrites the deletion
EditWord(word, e) ==
    LET deleted == IF Len(word) > 5 /\ e.del THEN RemoveAt(word, e.didx) ELSE word
    IN  IF Len(word) > 5 /\ e.sub THEN [word EXCEPT ![e.sidx] = e.new_char]
        ELSE deleted

\* what the two random edits can make of a word
WordVariants(word) == {EditWord(word, e) : e \in WordChoices(word)}

\* the lists of words the loop over the words can leave
RECURSIVE WordsVariants(_)
WordsVariants(words) ==
    IF words = <<>> THEN {<<>>}
    ELSE {<<w>> \o rest : w \in WordVariants(Head(words)),
                          rest \in WordsVariants(Tail(words))}

\* the values modified_name can have at the end of one round of the loop
RoundVariants(name) ==
    LET shuffled == {name} \cup (IF Len(Split(name)) > 1
                                 THEN {Join(ws) : ws \in Shuffles(Split(name))}
                                 ELSE {})
        zeroed == shuffled \cup {RemoveFirstZero(m) : m \in shuffled}
        edited == UNION {{Join(ws) : ws \in WordsVariants(Split(m))} : m \in zeroed}
    IN  edited \cup {Strip(m \o <<SPACE>> \o suffix) : m \in edited, suffix \in Suffixes}

\* the least text of a non-empty set of texts
LeastText(S) == CHOOSE t \in S : \A u \in S : ~StrLess(u, t)

\* a list that holds every element of the set twice
RECURSIVE ListOf_twice(_)
ListOf_twice(S) ==
    IF S = {} THEN <<>>
    ELSE <<LeastText(S), LeastText(S)>> \o ListOf_twice(S \ {LeastText(S)})

\* list(augmented_names), in the order of the texts (the order a set is
\* iterated in is not read by any caller)
RECURSIVE ListOf(_)
ListOf(S) == IF S = {} THEN <<>> ELSE <<LeastText(S)>> \o ListOf(S \ {LeastText(S)})

\* names whose rounds have few outcomes: the empty name, one word, a word
\* with the digit 0, two words
AugNames == {<<>>, <<1576>>, <<1576, 48>>, <<1576, SPACE, 1578>>}

AugInit ==
    /\ aug \in {[pc |-> "loop", name |-> n, round |-> 0, augmented_names |-> {},
                 ret |-> <<>>] : n \in AugNames}
    /\ norm = Idle /\ tr = Idle /\ sc = Idle /\ sk = Idle /\ pf = Idle /\ trn = Idle

\* one round of the loop: a variant is made and added to the set
AugmentRound ==
    /\ aug.pc = "loop"
    /\ aug.round < Rounds
    /\ \E modified_name \in RoundVariants(aug.name) :
          aug' = [aug EXCEPT !.round = aug.round + 1,
                             !.augmented_names = aug.augmented_names \cup {modified_name}]
    /\ UNCHANGED <<norm, tr, sc, sk, pf, trn>>

\* return list(augmented_names)
AugmentReturn ==
    /\ aug.pc = "loop"
    /\ aug.round = Rounds
    /\ aug' = [aug EXCEPT !.pc = "returned", !.ret = ListOf(aug.augmented_names)]
    /\ UNCHANGED <<norm, tr, sc, sk, pf, trn>>

AugNext == AugmentRound \/ AugmentReturn

SpecAugment == AugInit /\ [][AugNext]_vars

(***************************************************************************)
(* C18: for every name and every outcome of the random choices,            *)
(* augment_name returns between 1 and 70 variants, each a string, no two   *)
(* of them equal; while it runs, it holds at most one variant per round.   *)
(***************************************************************************)
C18_VariantCount ==
    /\ Cardinality(aug.augmented_names) <= aug.round
    /\ aug.round <= 70
    /\ (aug.pc = "returned" =>
           /\ Len(aug.ret) >= 1
           /\ Len(aug.ret) <= 70
           /\ \A i \in 1..Len(aug.ret) :
                 /\ aug.ret[i] \in Seq(0..1114111)
                 /\ \A j \in 1..Len(aug.ret) : i # j => aug.ret[i] # aug.ret[j])

\* after the 70 rounds a name with a digit 0 gave fewer variants than
\* rounds, one of them without the digit and with a suffix
C18_Witness ==
    /\ aug.pc = "returned"
    /\ aug.round = 70
    /\ aug.name = <<1576, 48>>
    /\ Len(aug.ret) > 1
    /\ Len(aug.ret) < 70
    /\ \E i \in 1..Len(aug.ret) : aug.ret[i] = <<1576, SPACE, SEEN, SPACE, JEEM>>

(***************************************************************************)
(* Training pipeline (train_models.ipynb)                                  *)
(***************************************************************************)
MaxAugmented == 2

MaxDataset == 2

\* rows of the sheet "Master File": a name with Alef-hamza and a plain name
TrnMasterRows == <<[product_name |-> <<97>>, product_name_ar |-> <<1571>>, sku |-> <<49>>],
                   [product_name |-> <<98>>, product_name_ar |-> <<1576>>, sku |-> <<50>>]>>

\* master sheets: without rows, with one row, with two rows
TrnMasters == {SubSeq(TrnMasterRows, 1, k) : k \in 0..Len(TrnMasterRows)}

\* rows of the sheet "Dataset": the marketplace name is a name of the master
\* rows or a name no master row has
TrnDatasetRows == {[seller_item_name |-> <<1578>>, marketplace_product_name_ar |-> n] :
                   n \in {<<1571>>, <<1576>>, <<1580>>}}

\* the sheet after drop_duplicates: no row twice
TrnDatasets == {d \in SeqsUpTo(TrnDatasetRows, MaxDataset) :
                  \A i, j \in 1..Len(d) : i # j => d[i] # d[j]}

\* the values of a column of the dataset
ColumnValues(rows, column) == {rows[i][column] : i \in 1..Len(rows)}

\* the label column left as it is in the sheet
label_of_raw(name) == name

\* dataset["marketplace_product_name_ar"].astype(str).apply(normalize_arabic)
label_of(name) == normalize_arabic(name)

\* what augment_name can return, cut down to MaxAugmented variants
AugmentedNames(name) ==
    {S \in SUBSET RoundVariants(name) : Cardinality(S) >= 1 /\ Cardinality(S) <= MaxAugmented}

\* train_test_split(test_size=0.2): the number of test samples
TestSize(n) == (n + 4) \div 5

TrnInit ==
    /\ trn \in {[pc |-> "loaded", master_file |-> m, dataset |-> d,
                 missing_names |-> {}, new_seller_item_name |-> <<>>,
                 new_marketplace_product_name_ar |-> <<>>,
                 test |-> {}, X_train |-> <<>>, y_train |-> <<>>, classes |-> {},
                 error |-> "none"] :
                m \in TrnMasters, d \in TrnDatasets}
    /\ norm = Idle /\ tr = Idle /\ sc = Idle /\ sk = Idle /\ pf = Idle /\ aug = Idle

\* missing_names = list(all_names - existing_names)
FindMissingNames ==
    /\ trn.pc = "loaded"
    /\ trn' = [trn EXCEPT !.pc = "augment",
                          !.missing_names =
                              {trn.master_file[i].product_name_ar :
                                  i \in 1..Len(trn.master_file)}
                              \ ColumnValues(trn.dataset, "marketplace_product_name_ar")]
    /\ UNCHANGED <<norm, tr, sc, sk, pf, aug>>

\* one round of the loop over missing_names: the variants of the name are
\* appended as rows that carry the name of the master file
AugmentMissingName ==
    /\ trn.pc = "augment"
    /\ trn.missing_names # {}
    /\ \E true_name \in trn.missing_names :
       \E augmented_names \in AugmentedNames(true_name) :
          trn' = [trn EXCEPT
                    !.missing_names = trn.missing_names \ {true_name},
                    !.dataset = trn.dataset \o
                        [i \in 1..Cardinality(augmented_names) |->
                            [seller_item_name |-> ListOf(augmented_names)[i],
                             marketplace_product_name_ar |-> true_name]]]
    /\ UNCHANGED <<norm, tr, sc, sk, pf, aug>>

\* the normalization cell, first part: normalize_arabic applied to the
\* names of the master file and to the labels of the dataset
NormalizeLabels ==
    /\ trn.pc = "augment"
    /\ trn.missing_names = {}
    /\ trn' = [trn EXCEPT
                 !.pc = "translate",
                 !.new_marketplace_product_name_ar =
                     [i \in 1..Len(trn.dataset) |->
                         label_of(trn.dataset[i].marketplace_product_name_ar)]]
    /\ UNCHANGED <<norm, tr, sc, sk, pf, aug>>

\* the normalization cell, second part: translate_to_arabic applied to the
\* next seller name, and normalize_arabic applied to the column once every
\* name is translated
TranslateSeller ==
    /\ trn.pc = "translate"
    /\ IF Len(trn.new_seller_item_name) = Len(trn.dataset)
       THEN trn' = [trn EXCEPT
                      !.pc = "normalized",
                      !.new_seller_item_name =
                          [i \in 1..Len(trn.dataset) |->
                              normalize_arabic(trn.new_seller_item_name[i])]]
       ELSE \E r \in translate_to_arabic(
                        trn.dataset[Len(trn.new_seller_item_name) + 1].seller_item_name,
                        trn.master_file) :
               IF r.raised
               THEN trn' = [trn EXCEPT !.pc = "raised", !.error = "TypeError"]
               ELSE trn' = [trn EXCEPT !.new_seller_item_name =
                                           Append(trn.new_seller_item_name, r.text)]
    /\ UNCHANGED <<norm, tr, sc, sk, pf, aug>>

\* train_test_split(seller_names, marketplace_names, test_size=0.2,
\* random_state=42): a fifth of the rows, rounded up, is set apart; which
\* rows these are is fixed by the seeded permutation. With no row left for
\* training the call raises ValueError.
SplitData ==
    /\ trn.pc = "normalized"
    /\ LET n == Len(trn.dataset)
       IN  IF n - TestSize(n) <= 0
           THEN trn' = [trn EXCEPT !.pc = "raised", !.error = "ValueError"]
           ELSE \E test \in {T \in SUBSET (1..n) : Cardinality(T) = TestSize(n)} :
                   LET kept == SelectSeq([i \in 1..n |-> i], LAMBDA i : i \notin test)
                   IN  trn' = [trn EXCEPT
                                 !.pc = "split", !.test = test,
                                 !.X_train = [k \in 1..Len(kept) |->
                                                 trn.new_seller_item_name[kept[k]]],
                                 !.y_train = [k \in 1..Len(kept) |->
                                                 trn.new_marketplace_product_name_ar[kept[k]]]]
    /\ UNCHANGED <<norm, tr, sc, sk, pf, aug>>

\* vectorizer.fit_transform(X_train) and model.fit(X_train_tfidf, y_train):
\* the labels of the classifier are the values of y_train. A training set
\* without any character raises ValueError (empty vocabulary), and so does
\* one with a single label.
FitModel ==
    /\ trn.pc = "split"
    /\ LET labels == {trn.y_train[k] : k \in 1..Len(trn.y_train)}
       IN  IF \A k \in 1..Len(trn.X_train) : trn.X_train[k] = <<>>
           THEN trn' = [trn EXCEPT !.pc = "raised", !.error = "ValueError"]
           ELSE IF Cardinality(labels) < 2
           THEN trn' = [trn EXCEPT !.pc = "raised", !.error = "ValueError"]
           ELSE trn' = [trn EXCEPT !.pc = "fitted", !.classes = labels]
    /\ UNCHANGED <<norm, tr, sc, sk, pf, aug>>

TrnNext ==
    \/ FindMissingNames
    \/ AugmentMissingName
    \/ NormalizeLabels
    \/ TranslateSeller
    \/ SplitData
    \/ FitModel

SpecTrain == TrnInit /\ [][TrnNext]_vars

\* the product_name_ar values of the master file
MasterNames == {trn.master_file[i].product_name_ar : i \in 1..Len(trn.master_file)}

(***************************************************************************)
(* C17 as stated: every label of the fitted classifier is a                *)
(* product_name_ar value of the master file.                               *)
(***************************************************************************)
C17_LabelsAreMasterNames_Original ==
    (trn.pc = "fitted") => trn.classes \subseteq MasterNames

(***************************************************************************)
(* C17: every label of the fitted classifier is the normalized form        *)
(* (normalize_arabic) of a marketplace_product_name_ar value of the        *)
(* dataset the split was made of, and each of these values is a name the   *)
(* dataset sheet had before the augmentation or a product_name_ar value of *)
(* the master file; the labels are at least two.                           *)
(***************************************************************************)
C17_LabelsAreNormalizedNames ==
    (trn.pc = "fitted") =>
        /\ Cardinality(trn.classes) >= 2
        /\ \A label \in trn.classes :
              \E n \in ColumnValues(trn.dataset, "marketplace_product_name_ar") :
                 /\ label = normalize_arabic(n)
                 /\ \/ n \in MasterNames
                    \/ \E i \in 1..Len(trn.dataset) :
                          /\ trn.dataset[i].marketplace_product_name_ar = n
                          /\ trn.dataset[i] \in TrnDatasetRows

\* a classifier was fitted whose labels include the normalized form of a
\* master name written with Alef-hamza, which is not a name of the master
\* file, the name having come in by augmentation
C17_Witness ==
    /\ trn.pc = "fitted"
    /\ <<1571>> \in MasterNames
    /\ <<ALEF>> \in trn.classes
    /\ <<ALEF>> \notin MasterNames
    /\ \A i \in 1..Len(trn.dataset) :
          trn.dataset[i].marketplace_product_name_ar = <<1571>>
              => trn.dataset[i] \notin TrnDatasetRows

(***************************************************************************)
(* Further properties of the batch pipeline                                *)
(***************************************************************************)
(***************************************************************************)
(* C21: a finished run of process_file has written its sheet to the file   *)
(* named by the argument output_file, and the path it reports as saved is  *)
(* the path it wrote.                                                      *)
(***************************************************************************)
C21_WritesToOutputFile ==
    (pf.pc = "done") =>
        /\ pf.written = pf.output_file
        /\ pf.reported = pf.written

(***************************************************************************)
(* C22 as stated: all stages of record i are complete (its SKU resolved)   *)
(* before any stage of record i+1 begins (its name translated).            *)
(***************************************************************************)
C22_RecordByRecord_Original ==
    Len(pf.processed) <= Len(pf.skus) + 1

(***************************************************************************)
(* C22: the batch is processed stage by stage: every name is translated    *)
(* before the names are normalized, every name is normalized before the    *)
(* first is vectorized, every record is vectorized, classified and scored  *)
(* (these three together, record by record) before the first SKU is        *)
(* resolved, and every SKU is resolved before the output is written.       *)
(***************************************************************************)
C22_StageByStage ==
    /\ pf.normalized => Len(pf.processed) = Len(pf.dataset)
    /\ (pf.vectorizerCalls > 0 \/ pf.classifierCalls > 0 \/ pf.rows # <<>>) =>
           /\ pf.normalized
           /\ pf.skus = <<>> \/ Len(pf.rows) = Len(pf.dataset)
    /\ pf.pair = "matched" =>
           /\ pf.vectorizerCalls = 2 * Len(pf.rows)
           /\ pf.classifierCalls = Len(pf.rows)
    /\ pf.skus # <<>> => Len(pf.rows) = Len(pf.dataset)
    /\ pf.pc = "done" => Len(pf.skus) = Len(pf.dataset)

\* the first of two records is scored, the second is translated and
\* normalized already, no SKU is resolved yet
C22_Witness ==
    /\ pf.pc = "score"
    /\ Len(pf.dataset) = 2
    /\ Len(pf.processed) = 2
    /\ pf.normalized
    /\ Len(pf.rows) = 1
    /\ pf.skus = <<>>

\* the records whose processed name is the empty text
EmptyNamed == {i \in 1..Len(pf.processed) : pf.normalized /\ pf.processed[i] = <<>>}

C26_UnknownIffNotFound ==
    /\ NotFound \notin PfLabels
    /\ \A i \in 1..Len(pf.rows) :
          /\ (pf.rows[i].confidence = "Unknown")
                <=> (pf.rows[i].marketplace_product_name_ar = NotFound)
          /\ (i <= Len(pf.skus) /\ pf.rows[i].marketplace_product_name_ar = NotFound)
                => pf.skus[i] = NotFound
    /\ \A i \in 1..Len(pf.output) :
          /\ (pf.output[i].confidence = "Unknown")
                <=> (pf.output[i].marketplace_product_name_ar = NotFound)
          /\ (pf.output[i].marketplace_product_name_ar = NotFound)
                => pf.output[i].sku = NotFound

\* a sheet was written with a row that is "Not Found" throughout and a row
\* with a predicted name of low confidence whose SKU was not found
C26_Witness ==
    /\ pf.pc = "done"
    /\ Len(pf.output) = 2
    /\ pf.output[1].marketplace_product_name_ar = NotFound
    /\ pf.output[1].confidence = "Unknown"
    /\ pf.output[1].similarity = Tenths(1)
    /\ pf.output[2].marketplace_product_name_ar = <<1583>>
    /\ pf.output[2].confidence = "Low"
    /\ pf.output[2].sku = NotFound

ArabicLetter(c) == c \in (1569..1594) \cup (1601..1610)

\* the word "سعر" occurs in s at position i
PriceAt(s, i) ==
    /\ i >= 1 /\ i + 2 <= Len(s)
    /\ s[i] = SEEN /\ s[i + 1] = AIN /\ s[i + 2] = REH

\* some occurrence of "سعر" in s has an Arabic letter directly before or
\* directly after it
PriceTouchesLetter(s) ==
    \E i \in 1..Len(s) :
       /\ PriceAt(s, i)
       /\ \/ (i > 1 /\ ArabicLetter(s[i - 1]))
          \/ (i + 3 <= Len(s) /\ ArabicLetter(s[i + 3]))

\* some occurrence of "سعر" in s stands as a whole word
HasWholeWordPrice(s) ==
    \E i \in 1..Len(s) :
       /\ PriceAt(s, i)
       /\ (i = 1 \/ ~IsWordChar(s[i - 1]))
       /\ (i + 2 = Len(s) \/ ~IsWordChar(s[i + 3]))

\* "جد", one or more "ي", "د" occurs in s
HasNewWord(s) ==
    \E i \in 1..Len(s) : \E e \in (i + 3)..Len(s) :
       /\ s[i] = JEEM /\ s[i + 1] = DAL /\ s[e] = DAL
       /\ \A k \in (i + 2)..(e - 1) : s[k] = YEH

\* the number of times c occurs in s
Count(s, c) == Cardinality({i \in 1..Len(s) : s[i] = c})

C28_TranslateTotal ==
    Latin(tr.text) =>
        /\ tr.pc # "raised"
        /\ tr.pc = "returned" => tr.ret \in Seq(0..1114111)

(***************************************************************************)
(* Further properties of compute_similarity                                *)
(***************************************************************************)
(***************************************************************************)
(* C27: in the record compute_similarity returns (default thresholds), the *)
(* confidence is the tier of the reported, rounded similarity_score: a     *)
(* reported score of exactly 0.8 does not carry "High", one of exactly 0.6 *)
(* does not carry "Medium", and a raw score below the cutoff 0.4 is        *)
(* reported as 0.0 with "Unknown".                                         *)
(***************************************************************************)
C27_ConfidenceOfReportedScore ==
    (SingleDone /\ sc.args = DefaultArgs) =>
        /\ sc.similarity_score = Tenths(8) => sc.confidence # "High"
        /\ sc.similarity_score = Tenths(6) => sc.confidence # "Medium"
        /\ sc.raw < Tenths(4) => (sc.similarity_score = 0 /\ sc.confidence = "Unknown")

(***************************************************************************)
(* The edits of one word in augment_name                                   *)
(***************************************************************************)
\* words of 5, 6 and 7 characters
EditWords == {<<1575, 1576, 1578, 1579, 1580>>,
              <<1575, 1576, 1578, 1579, 1580, 1581>>,
              <<1575, 1576, 1578, 1579, 1580, 1581, 1582>>}

WordInit ==
    /\ aug \in {[pc |-> "word", word |-> w, choice |-> c, result |-> <<>>] :
                w \in EditWords,
                c \in {[del |-> FALSE, didx |-> 0, sub |-> FALSE, sidx |-> 0, new_char |-> 0]}}
    /\ norm = Idle /\ tr = Idle /\ sc = Idle /\ sk = Idle /\ pf = Idle /\ trn = Idle

\* one round of the loop over the words
EditOneWord ==
    /\ aug.pc = "word"
    /\ \E e \in WordChoices(aug.word) :
          aug' = [aug EXCEPT !.pc = "edited", !.choice = e, !.result = EditWord(aug.word, e)]
    /\ UNCHANGED <<norm, tr, sc, sk, pf, trn>>

WordNext == EditOneWord

SpecAugmentWord == WordInit /\ [][WordNext]_vars

(***************************************************************************)
(* C29: in augment_name a word of 5 characters or fewer is never altered   *)
(* by the deletion or the substitution. For a longer word the two are      *)
(* decided separately and both are computed from the word as it was: a     *)
(* deletion alone gives the word without one character, a substitution     *)
(* (with or without a deletion) gives a word of the original length with   *)
(* one character replaced, so no word carries both edits.                  *)
(***************************************************************************)
C29_EditsFromOriginalWord ==
    (aug.pc = "edited") =>
        /\ Len(aug.word) <= 5 => aug.result = aug.word
        /\ (~aug.choice.del /\ ~aug.choice.sub) => aug.result = aug.word
        /\ (aug.choice.del /\ ~aug.choice.sub) =>
              aug.result = RemoveAt(aug.word, aug.choice.didx)
        /\ aug.choice.sub =>
              /\ Len(aug.result) = Len(aug.word)
              /\ aug.result[aug.choice.sidx] = aug.choice.new_char
              /\ \A k \in 1..Len(aug.word) :
                    k # aug.choice.sidx => aug.result[k] = aug.word[k]
        /\ \/ aug.result = aug.word
           \/ \E k \in 1..Len(aug.word) : aug.result = RemoveAt(aug.word, k)
           \/ /\ Len(aug.result) = Len(aug.word)
              /\ Cardinality({k \in 1..Len(aug.word) : aug.result[k] # aug.word[k]}) = 1

\* deletion and substitution both fired for a word of 7 characters, at
\* different places: the result has 7 characters, one of them replaced
C29_Witness ==
    /\ aug.pc = "edited"
    /\ Len(aug.word) = 7
    /\ aug.choice.del /\ aug.choice.sub
    /\ aug.choice.didx # aug.choice.sidx
    /\ Len(aug.result) = 7
    /\ aug.result[aug.choice.sidx] # aug.word[aug.choice.sidx]
    /\ aug.result[aug.choice.didx] = aug.word[aug.choice.didx]

====
